---- MODULE Spec2Model ----
(***************************************************************************)
(* Model of the S3 -> SQS -> Discord relay.                                *)
(*                                                                         *)
(*   discordBot/bot.py                 the consumer: DiscordInstagramBot,  *)
(*                                     its poll loop and dispatcher        *)
(*   awsCloudformation/lambda_function.py   the ingest side: lambda_handler*)
(*                                     and ImageProcessor                  *)
(*                                                                         *)
(* The two halves run in different processes and share only the queue      *)
(* service, so each has a specification of its own: Spec (the consumer)    *)
(* and IngestSpec (one Lambda invocation).                                 *)
(***************************************************************************)
EXTENDS Integers, Sequences, FiniteSets, TLC

\* ------------------------------------------------------------------ bounds
\* messages an external producer may put on the queue
MaxMsgs == 2
\* invocations of process_sqs_messages that may be alive at the same time
MaxTasks == 2
\* records of one ingest batch
MaxRecords == 2
\* records of the ingest batch of a start-up of both programs
MaxStartRecords == 1

\* ------------------------------------------------------- program constants
\* bot.py:141  MaxNumberOfMessages=10
MaxNumberOfMessages == 10
\* lambda_function.py:167  ExpiresIn=86400
ExpiresIn == 86400

VARIABLES
    \* ---- consumer (bot.py)
    running,            \* self.running
    processing_active,  \* self.processing_active
    task,               \* the live invocations of process_sqs_messages
    queue,              \* the SQS queue: message id -> [st, body]
    channel,            \* ids of the messages whose embed reached the channel
    ticked,             \* the step taken last was the scheduler invoking process_sqs_messages
    loop,               \* the tasks.loop of process_sqs_messages: "unstarted", "running"
                        \* (is_running() is true) or "cancelled"
    conn,               \* the Discord client: "open", "closed" (is_closed() is true), or
                        \* "unbuilt"/"failed" before and after a failed construction
    life,               \* calls made so far: of the loop's start and cancel, of the
                        \* client's close
    shut,               \* the step taken last was a call of shutdown
    ready,              \* what the step taken last was, if a ready event: "start" (it
                        \* started the loop), "again" (it found the loop running) or
                        \* "nochannel" (it found no channel); "none" otherwise
    \* ---- ingest (lambda_function.py)
    queue_url,          \* os.environ.get('SQS_QUEUE_URL') is set
    event,              \* the Lambda event
    ipc,                \* position of the invocation
    idx,                \* index of the next record of the loop
    processed_images,   \* processed_images
    errors,             \* errors
    aws_calls,          \* calls made to S3 and SQS, in order
    response            \* the value lambda_handler returns

botVars == <<running, processing_active, task, queue, channel, ticked, loop, conn, life, shut, ready>>
ingestVars == <<queue_url, event, ipc, idx, processed_images, errors, aws_calls, response>>
vars == <<running, processing_active, task, queue, channel, ticked, loop, conn, life, shut, ready,
          queue_url, event, ipc, idx, processed_images, errors, aws_calls, response>>

None == "<None>"

(***************************************************************************)
(*                         THE CONSUMER  (bot.py)                          *)
(***************************************************************************)

MsgIds == 1..MaxMsgs
Tasks == 1..MaxTasks

\* A message body, by what json.loads and the .get calls of
\* _process_single_message make of it:
\*   parse      "invalid"  json.loads raises JSONDecodeError
\*              "scalar"   valid JSON that is no object (.get raises)
\*              "object"   a JSON object
\*   image_url  None (key absent), "" or a URL
\*   timestamp  "" (absent, the default), an ISO-8601 text or another text
Bodies ==
    { [parse |-> "invalid", image_url |-> None, timestamp |-> ""],
      [parse |-> "scalar",  image_url |-> None, timestamp |-> ""],
      [parse |-> "object",  image_url |-> None, timestamp |-> "iso"],
      [parse |-> "object",  image_url |-> "",   timestamp |-> "iso"],
      [parse |-> "object",  image_url |-> "url", timestamp |-> "iso"],
      [parse |-> "object",  image_url |-> "url", timestamp |-> ""],
      [parse |-> "object",  image_url |-> "url", timestamp |-> "malformed"] }

\* the body slot of a message that no producer has published yet
NoBody == [parse |-> "none", image_url |-> None, timestamp |-> ""]

\* Python truthiness of the value of message_body.get('image_url')
Truthy(v) == v \notin {None, ""}

InQueue(m) == queue[m].st \in {"visible", "inflight"}
Published(m) == queue[m].st # "unpublished"

\* One invocation of process_sqs_messages: where it stands (pc), the fetched
\* batch (messages), the index of the message of the for loop (i) and what the
\* invocation has called and logged so far (log).
IdleTask == [pc |-> "idle", messages |-> <<>>, i |-> 0, log |-> <<>>]

\* an entry of a task's log: a collaborator call with its outcome, or a log line
NoHandle == <<"rh", 0>>
Entry(op, id, h, ok) == [op |-> op, id |-> id, h |-> h, ok |-> ok]

BotInit ==
    /\ running = TRUE
    /\ processing_active = FALSE
    /\ task = [t \in Tasks |-> IdleTask]
    /\ queue = [m \in MsgIds |-> [st |-> "unpublished", body |-> NoBody]]
    /\ channel = {}
    /\ ticked = FALSE
    /\ loop = "unstarted"
    /\ conn = "open"
    /\ life = [starts |-> 0, cancels |-> 0, closes |-> 0]
    /\ shut = FALSE
    /\ ready = "none"

\* ---- the queue service and its other clients
\* The queue is followed for as long as the consumer process lives: close()
\* ends discord_client.start() and with it the process (bot.py:306-307, 324, 338).

\* a producer publishes message m
Publish(m, b) ==
    /\ conn = "open"
    /\ queue[m].st = "unpublished"
    /\ queue' = [queue EXCEPT ![m] = [st |-> "visible", body |-> b]]
    /\ ticked' = FALSE
    /\ UNCHANGED <<running, processing_active, task, channel, loop, conn, life>>
    /\ shut' = FALSE
    /\ ready' = "none"
    /\ UNCHANGED ingestVars

\* the visibility timeout of a received message expires: it can be received again
VisibilityTimeout(m) ==
    /\ conn = "open"
    /\ queue[m].st = "inflight"
    /\ queue' = [queue EXCEPT ![m].st = "visible"]
    /\ ticked' = FALSE
    /\ UNCHANGED <<running, processing_active, task, channel, loop, conn, life>>
    /\ shut' = FALSE
    /\ ready' = "none"
    /\ UNCHANGED ingestVars

\* the message dict receive_message returns for m; the receipt handle names m
SqsMessage(m) ==
    [MessageId |-> m, ReceiptHandle |-> <<"rh", m>>, Body |-> queue[m].body]

\* delete_message(ReceiptHandle=h) that returns: the message leaves the queue
DeleteFromQueue(q, h) ==
    IF q[h[2]].st \in {"visible", "inflight"}
    THEN [q EXCEPT ![h[2]] = [st |-> "deleted", body |-> NoBody]]
    ELSE q

\* ---- process_sqs_messages

\* the guard without the flag
TickReturns_NoFlag == ~running

\* the guard without the running flag
TickReturns_NoRunning == processing_active

\* bot.py:132  if not self.running or self.processing_active: return
TickReturns == ~running \/ processing_active

\* The scheduler invokes process_sqs_messages (bot.py:129-135): up to the guard
\* and, when it passes, the setting of the flag.  Once the loop was started a
\* tick may arrive at any time, during a cycle and after cancel() as well: it
\* is the guard, not the timing of the scheduler, that the cycle relies on.
Tick(t) ==
    /\ UNCHANGED ingestVars
    /\ UNCHANGED <<loop, conn, life>>
    /\ shut' = FALSE
    /\ ready' = "none"
    /\ loop # "unstarted"
    /\ task[t].pc = "idle"
    /\ \A u \in Tasks : u < t => task[u].pc # "idle"
    /\ IF TickReturns
       THEN /\ ticked' = TRUE
            /\ UNCHANGED <<running, processing_active, task, queue, channel>>
       ELSE /\ processing_active' = TRUE
            /\ task' = [task EXCEPT ![t] = [pc |-> "receive", messages |-> <<>>,
                                            i |-> 0, log |-> <<>>]]
            /\ ticked' = TRUE
            /\ UNCHANGED <<running, queue, channel>>

\* the batches receive_message may return: the visible messages, any number of
\* them up to MaxNumberOfMessages, in any order
Receivable == {m \in MsgIds : queue[m].st = "visible"}
Batches ==
    UNION { {s \in [1..n -> Receivable] : \A a, b \in 1..n : a # b => s[a] # s[b]}
            : n \in 0..(IF Cardinality(Receivable) < MaxNumberOfMessages
                         THEN Cardinality(Receivable) ELSE MaxNumberOfMessages) }

\* processing_active without the finally of line 170: only the empty fetch
\* resets it
ExitFlag_NoFinally(path) == path # "empty"

\* bot.py:148, 170-171: processing_active as a cycle leaves it, on each exit
\* path: "empty" (no message fetched), "raised" (the fetch raised), "drained"
\* (the batch is through) and "cancelled" (CancelledError at the await)
ExitFlag(path) == FALSE

\* bot.py:137-149 and, when the call raises, 167-171
Receive(t) ==
    /\ UNCHANGED ingestVars
    /\ UNCHANGED <<loop, conn, life>>
    /\ shut' = FALSE
    /\ ready' = "none"
    /\ task[t].pc = "receive"
    /\ \/ \* receive_message raises: the outer handler logs, finally resets the flag
          /\ task' = [task EXCEPT ![t].pc = "idle",
                                  ![t].log = <<Entry("receive_message", 0, NoHandle, FALSE),
                                               Entry("error_cycle", 0, NoHandle, FALSE)>>]
          /\ processing_active' = ExitFlag("raised")
          /\ ticked' = FALSE
          /\ UNCHANGED <<running, queue, channel>>
       \/ \E s \in Batches :
          LET ids == {s[k] : k \in 1..Len(s)}
              msgs == [k \in 1..Len(s) |-> SqsMessage(s[k])]
          IN
          /\ queue' = [m \in MsgIds |->
                          IF m \in ids
                          THEN [queue[m] EXCEPT !.st = "inflight"]
                          ELSE queue[m]]
          /\ IF msgs = <<>>
             THEN \* if not messages: flag reset, return (and finally)
                  /\ task' = [task EXCEPT ![t].pc = "idle",
                                          ![t].log = <<Entry("receive_message", 0, NoHandle, TRUE)>>]
                  /\ processing_active' = ExitFlag("empty")
                  /\ ticked' = FALSE
             ELSE /\ task' = [task EXCEPT ![t].pc = "process", ![t].messages = msgs,
                                          ![t].i = 1,
                                          ![t].log = <<Entry("receive_message", 0, NoHandle, TRUE)>>]
                  /\ UNCHANGED processing_active
                  /\ ticked' = FALSE
          /\ UNCHANGED <<running, channel>>

\* ---- _process_single_message

\* bot.py:240  the timestamp argument of discord.Embed: datetime.fromisoformat
\* raises ValueError on a text that is not ISO-8601; an empty text takes utcnow()
EmbedRaises(timestamp) == timestamp = "malformed"

\* bot.py:180-203, 209-214: _process_single_message up to the await of
\* channel.send.  has_channel is what get_channel returned.  The result is
\* "raise" (an exception leaves the function), "return" (the early return of
\* line 191) or "send" (the function awaits channel.send), with the lines logged.
ProcessSingle(msg, has_channel) ==
    LET b == msg.Body
        m == msg.MessageId
    IN
    IF b.parse = "invalid"
    THEN [result |-> "raise", log |-> <<Entry("error_json", m, NoHandle, FALSE)>>]
    ELSE IF b.parse # "object"
    THEN [result |-> "raise", log |-> <<Entry("error_single", m, NoHandle, FALSE)>>]
    ELSE IF ~Truthy(b.image_url)
    THEN [result |-> "return", log |-> <<Entry("warning", m, NoHandle, TRUE)>>]
    ELSE IF ~has_channel
    THEN [result |-> "raise", log |-> <<Entry("get_channel", m, NoHandle, FALSE),
                                        Entry("error_single", m, NoHandle, FALSE)>>]
    ELSE IF EmbedRaises(b.timestamp)
    THEN [result |-> "raise", log |-> <<Entry("get_channel", m, NoHandle, TRUE),
                                        Entry("error_single", m, NoHandle, FALSE)>>]
    ELSE [result |-> "send", log |-> <<Entry("get_channel", m, NoHandle, TRUE)>>]

\* bot.py:206-207, 212-214: channel.send has completed (ok) or raised
SendResult(msg, ok) ==
    IF ok
    THEN [result |-> "return", log |-> <<Entry("send", msg.MessageId, NoHandle, TRUE)>>]
    ELSE [result |-> "raise", log |-> <<Entry("send", msg.MessageId, NoHandle, FALSE),
                                        Entry("error_single", msg.MessageId, NoHandle, FALSE)>>]

\* ---- the for loop of process_sqs_messages (bot.py:153-165)

\* the delete placed where it runs whatever the attempt did
DeleteIssued_Always(result) == TRUE

\* bot.py:158  delete_message is reached when _process_single_message returned
DeleteIssued(result) == result = "return"

\* the handle of the first message of the batch
DeleteHandle_First(messages, i) == messages[1].ReceiptHandle

\* bot.py:160  ReceiptHandle=message['ReceiptHandle']
DeleteHandle(messages, i) == messages[i].ReceiptHandle

\* bot.py:157-165: what follows _process_single_message for message i: the
\* delete call (deleted is whether it returned) or the handler of line 163
AfterSingle(messages, i, result, deleted) ==
    LET m == messages[i].MessageId
        h == DeleteHandle(messages, i)
    IN
    IF DeleteIssued(result)
    THEN IF deleted
         THEN <<Entry("delete_message", m, h, TRUE)>>
         ELSE <<Entry("delete_message", m, h, FALSE),
                Entry("error_loop", m, NoHandle, FALSE)>>
    ELSE <<Entry("error_loop", m, NoHandle, FALSE)>>

\* the queue after the loop body of message i
QueueAfter(messages, i, result, deleted) ==
    IF DeleteIssued(result) /\ deleted
    THEN DeleteFromQueue(queue, DeleteHandle(messages, i))
    ELSE queue

\* the handler around the loop instead of inside it: a raise ends the batch
LoopNext_Abort(i, n, raised) == IF raised THEN n + 1 ELSE i + 1

\* bot.py:153-165: the for loop goes on to the next message, whether the
\* iteration of message i raised or not (n is the size of the batch)
LoopNext(i, n, raised) == i + 1

\* the loop moves to the next message or, after the last one, leaves through
\* finally (bot.py:170-171)
NextMessage(t, lg, raised) ==
    LET j == LoopNext(task[t].i, Len(task[t].messages), raised) IN
    IF j <= Len(task[t].messages)
    THEN /\ task' = [task EXCEPT ![t].pc = "process", ![t].i = j, ![t].log = lg]
         /\ UNCHANGED processing_active
    ELSE /\ task' = [task EXCEPT ![t].pc = "idle", ![t].log = lg]
         /\ processing_active' = ExitFlag("drained")

\* one iteration of the loop up to the first await: the message is rejected,
\* skipped, or its embed is handed to channel.send
ProcessMessage(t) ==
    /\ UNCHANGED ingestVars
    /\ UNCHANGED <<loop, conn, life>>
    /\ shut' = FALSE
    /\ ready' = "none"
    /\ task[t].pc = "process"
    /\ \E has_channel, deleted \in BOOLEAN :
        LET msgs == task[t].messages
            i == task[t].i
            r == ProcessSingle(msgs[i], has_channel)
        IN
        IF r.result = "send"
        THEN /\ deleted = TRUE
             /\ task' = [task EXCEPT ![t].pc = "send", ![t].log = @ \o r.log]
             /\ ticked' = FALSE
             /\ UNCHANGED <<running, processing_active, queue, channel>>
        ELSE /\ (r.result = "raise" => deleted = TRUE)
             /\ queue' = QueueAfter(msgs, i, r.result, deleted)
             /\ NextMessage(t, task[t].log \o r.log \o AfterSingle(msgs, i, r.result, deleted),
                            r.result = "raise" \/ ~deleted)
             /\ ticked' = FALSE
             /\ UNCHANGED <<running, channel>>

\* channel.send completes, and the rest of the iteration follows
SendReturn(t) ==
    /\ UNCHANGED ingestVars
    /\ UNCHANGED <<loop, conn, life>>
    /\ shut' = FALSE
    /\ ready' = "none"
    /\ task[t].pc = "send"
    /\ \E ok, deleted \in BOOLEAN :
        LET msgs == task[t].messages
            i == task[t].i
            r == SendResult(msgs[i], ok)
        IN
        /\ (~ok => deleted = TRUE)
        /\ channel' = IF ok THEN channel \cup {msgs[i].MessageId} ELSE channel
        /\ queue' = QueueAfter(msgs, i, r.result, deleted)
        /\ NextMessage(t, task[t].log \o r.log \o AfterSingle(msgs, i, r.result, deleted),
                       r.result = "raise" \/ ~deleted)
        /\ ticked' = FALSE
        /\ UNCHANGED running

\* ---- shutdown and on_ready

\* the invocations suspended at the await of channel.send
InFlight == {t \in Tasks : task[t].pc = "send"}

\* bot.py:302  if self.process_sqs_messages.is_running()
ShouldCancel == loop = "running"

\* the close without the is_closed() test
ShouldClose_Always == TRUE

\* bot.py:306  if not self.discord_client.is_closed()
ShouldClose == conn # "closed"

\* The coroutines of the event loop run one at a time: shutdown and on_ready
\* run only while the poll task is suspended, at the await of channel.send or
\* between two ticks.
Suspended == \A t \in Tasks : task[t].pc \in {"idle", "send"}

\* bot.py:295-309  shutdown().  cancel() raises CancelledError in the poll
\* task at its await: it is no Exception, so neither handler of
\* process_sqs_messages catches it and the invocation leaves through finally;
\* the message of the interrupted send is not deleted (reached tells whether
\* the embed got to the channel all the same).
ShutdownEffect(reached) ==
    /\ running' = FALSE
    /\ shut' = TRUE
    /\ life' = [starts |-> life.starts,
                cancels |-> life.cancels + (IF ShouldCancel THEN 1 ELSE 0),
                closes |-> life.closes + (IF ShouldClose THEN 1 ELSE 0)]
    /\ loop' = IF ShouldCancel THEN "cancelled" ELSE loop
    /\ conn' = IF ShouldClose THEN "closed" ELSE conn
    /\ IF ShouldCancel /\ InFlight # {}
       THEN /\ task' = [t \in Tasks |->
                          IF t \in InFlight
                          THEN [task[t] EXCEPT
                                  !.pc = "idle",
                                  !.log = @ \o <<Entry("cancelled",
                                                       task[t].messages[task[t].i].MessageId,
                                                       NoHandle, reached)>>]
                          ELSE task[t]]
            /\ channel' = IF reached
                          THEN channel \cup {task[t].messages[task[t].i].MessageId : t \in InFlight}
                          ELSE channel
            /\ processing_active' = ExitFlag("cancelled")
       ELSE /\ reached = FALSE
            /\ UNCHANGED <<task, channel, processing_active>>
    /\ ticked' = FALSE
    /\ UNCHANGED queue

\* shutdown() is called: by the signal handler's task or by BotManager.run
\* (bot.py:319-338)
Shutdown ==
    /\ UNCHANGED ingestVars
    /\ conn \in {"open", "closed"}
    /\ Suspended
    /\ \E reached \in BOOLEAN : ShutdownEffect(reached)
    /\ ready' = "none"

\* the handler that goes on without channel
ChannelMissing_Never(has_channel) == FALSE

\* bot.py:114  if not channel
ChannelMissing(has_channel) == ~has_channel

\* the start without the is_running() test
ShouldStart_Always == TRUE

\* bot.py:119  if not self.process_sqs_messages.is_running()
ShouldStart == loop # "running"

\* bot.py:106-122  the handler of the ready event: without channel the bot
\* shuts down and the handler returns; with it the loop is started unless it
\* is running
ReadyEffect(has_channel) ==
    IF ChannelMissing(has_channel)
    THEN /\ \E reached \in BOOLEAN : ShutdownEffect(reached)
         /\ ready' = "nochannel"
    ELSE /\ loop' = IF ShouldStart THEN "running" ELSE loop
         /\ life' = [life EXCEPT !.starts = @ + (IF ShouldStart THEN 1 ELSE 0)]
         /\ ready' = IF ~has_channel THEN "nochannel"
                      ELSE IF loop # "running" THEN "start" ELSE "again"
         /\ ticked' = FALSE
         /\ shut' = FALSE
         /\ UNCHANGED <<running, processing_active, task, queue, channel, conn>>

\* on_ready at the first connection: no ready event was handled yet (the
\* first one starts the loop or closes the connection)
OnReady ==
    /\ UNCHANGED ingestVars
    /\ conn = "open"
    /\ loop = "unstarted"
    /\ Suspended
    /\ \E has_channel \in BOOLEAN : ReadyEffect(has_channel)

\* on_ready once more: the client has reconnected and is ready again
OnReadyAgain ==
    /\ UNCHANGED ingestVars
    /\ conn = "open"
    /\ loop # "unstarted"
    /\ Suspended
    /\ \E has_channel \in BOOLEAN : ReadyEffect(has_channel)


(***************************************************************************)
(*                   THE INGEST SIDE  (lambda_function.py)                 *)
(***************************************************************************)

\* ---- text: a text is a sequence of one-character strings; in a raw object
\* key an escape ("%2F", "%2E", "%20") or "+" is one element

\* str.lower() on the characters the keys use
ToLower == ("P" :> "p") @@ ("N" :> "n") @@ ("G" :> "g") @@ ("A" :> "a")
Lower(str) == [k \in 1..Len(str) |-> IF str[k] \in DOMAIN ToLower THEN ToLower[str[k]] ELSE str[k]]

\* urllib.parse.unquote_plus (lambda_function.py:53): "+" is a space, an escape
\* is the character it encodes
Unescape == ("+" :> " ") @@ ("%2F" :> "/") @@ ("%2E" :> ".") @@ ("%20" :> " ")
UnquotePlus(raw) ==
    [k \in 1..Len(raw) |-> IF raw[k] \in DOMAIN Unescape THEN Unescape[raw[k]] ELSE raw[k]]

\* urllib.parse.quote (lambda_function.py:173): "/" and unreserved characters
\* are kept, a space becomes %20
Quote(str) == [k \in 1..Len(str) |-> IF str[k] = " " THEN "%20" ELSE str[k]]

\* the last position of character c in str, 0 when it has none (str.rfind)
RFind(str, c) ==
    LET at == {k \in 1..Len(str) : str[k] = c}
    IN IF at = {} THEN 0 ELSE CHOOSE k \in at : \A j \in at : j <= k

\* os.path.splitext(p)[1] (lambda_function.py:124): the text from the last dot
\* of the last path component on, unless only dots precede it in the component
SplitExt(p) ==
    LET sepIndex == RFind(p, "/")
        dotIndex == RFind(p, ".")
    IN IF /\ dotIndex > sepIndex
          /\ \E k \in (sepIndex + 1)..(dotIndex - 1) : p[k] # "."
       THEN SubSeq(p, dotIndex, Len(p))
       ELSE <<>>

\* lambda_function.py:123
valid_extensions ==
    { <<".", "j", "p", "g">>, <<".", "j", "p", "e", "g">>, <<".", "p", "n", "g">>,
      <<".", "g", "i", "f">>, <<".", "w", "e", "b", "p">> }

\* the extension taken as a suffix of the key
IsValidImageFile_Suffix(object_key) ==
    \E e \in valid_extensions :
        /\ Len(object_key) >= Len(e)
        /\ SubSeq(Lower(object_key), Len(object_key) - Len(e) + 1, Len(object_key)) = e

\* lambda_function.py:113-125
IsValidImageFile(object_key) == SplitExt(Lower(object_key)) \in valid_extensions

\* ---- the inputs of one invocation

\* raw object keys, as they stand in the event
RawKeys ==
    { <<>>,
      <<"a", ".", "p", "n", "g">>,
      <<"a", "%2F", "b", ".", "P", "N", "G">>,
      <<"a", "+", "b", ".", "j", "p", "e", "g">>,
      <<"a", ".", "j", "p", "g">>,
      <<"a", ".", "g", "i", "f">>,
      <<"A", "%2E", "w", "e", "b", "p">>,
      <<"a", ".", "t", "x", "t">>,
      <<".", "p", "n", "g">>,
      <<"a", ".", "j", "p", "g", "/", "b">> }

\* s3.bucket.name: absent (None), empty or a name
Buckets == {None, "", "imgs"}

\* One record of the event.  shape "malformed": a part the handler reads with
\* .get is not a mapping, or the key is not a text; reading it raises.  A
\* record without object key reads as key '' (the default of line 54).
Records ==
    {[shape |-> "malformed", bucket |-> None, key |-> <<>>]}
    \cup {[shape |-> "mapping", bucket |-> b, key |-> k] : b \in Buckets, k \in RawKeys}

RecordSeqs == UNION {[1..n -> Records] : n \in 0..MaxRecords}

\* The event.  shape "other": the event is no mapping (event.get raises).
\* records "absent": no Records key (default []); "unsized": a value len()
\* rejects (null, a number); "list": a list of records.
Events ==
    {[shape |-> "other", records |-> "absent", Records |-> <<>>],
     [shape |-> "mapping", records |-> "absent", Records |-> <<>>],
     [shape |-> "mapping", records |-> "unsized", Records |-> <<>>]}
    \cup {[shape |-> "mapping", records |-> "list", Records |-> s] : s \in RecordSeqs}

\* the batch can be read: lines 45-48 raise nothing
Readable(ev) == ev.shape = "mapping" /\ ev.records # "unsized"

NoResponse == [statusCode |-> 0]
NoUrl == [kind |-> "none", bucket |-> None, key |-> <<>>, ttl |-> 0]
NoMessage == [image_url |-> NoUrl, object_key |-> <<>>, metadata |-> "none"]

IngestIdle ==
    /\ queue_url = TRUE
    /\ event = [shape |-> "mapping", records |-> "absent", Records |-> <<>>]
    /\ ipc = "idle"
    /\ idx = 0
    /\ processed_images = <<>>
    /\ errors = <<>>
    /\ aws_calls = <<>>
    /\ response = NoResponse

\* lambda_handler is invoked with an event; the environment has the queue URL or not
IngestInit ==
    /\ queue_url \in BOOLEAN
    /\ event \in Events
    /\ ipc = "start"
    /\ idx = 0
    /\ processed_images = <<>>
    /\ errors = <<>>
    /\ aws_calls = <<>>
    /\ response = NoResponse

\* ---- lambda_handler and ImageProcessor

\* lambda_function.py:243-254 with 21-29 and 41-46, 94-97: the constructor, and
\* the reading of the batch
LambdaStart ==
    /\ UNCHANGED botVars
    /\ ipc = "start"
    /\ IF ~queue_url
       THEN \* ImageProcessor() raises ValueError: lambda_handler returns 500
            /\ response' = [statusCode |-> 500, error |-> "Lambda execution failed"]
            /\ ipc' = "done"
            /\ UNCHANGED <<queue_url, event, idx, processed_images, errors, aws_calls>>
       ELSE IF ~Readable(event)
       THEN \* the outer handler records the one top-level error
            /\ errors' = <<[kind |-> "event", rec |-> 0]>>
            /\ ipc' = "respond"
            /\ UNCHANGED <<queue_url, event, idx, processed_images, aws_calls, response>>
       ELSE /\ ipc' = "loop"
            /\ idx' = 1
            /\ UNCHANGED <<queue_url, event, processed_images, errors, aws_calls, response>>

\* lambda_function.py:50-67: "raise", "skip" (continue) or "valid"
NormalizeRecord(rec) ==
    IF rec.shape # "mapping" THEN "raise"
    ELSE IF rec.bucket \in {None, ""} \/ UnquotePlus(rec.key) = <<>> THEN "skip"
    ELSE IF ~IsValidImageFile(UnquotePlus(rec.key)) THEN "skip"
    ELSE "valid"

\* the lookup without its handler: a failure of head_object leaves the function
GetObjectMetadata_Raises(head_ok) == IF head_ok THEN "head" ELSE "raise"

\* lambda_function.py:127-149: head_object's answer, or {} when it raises
GetObjectMetadata(head_ok) == IF head_ok THEN "head" ELSE "empty"

\* the URL without the fallback of line 173: an empty URL on failure
GenerateImageUrl_NoFallback(bucket_name, object_key, url_ok) ==
    IF url_ok
    THEN [kind |-> "presigned", bucket |-> bucket_name, key |-> object_key, ttl |-> ExpiresIn]
    ELSE [kind |-> "none", bucket |-> None, key |-> <<>>, ttl |-> 0]

\* lambda_function.py:151-173: the pre-signed URL, or the public URL when
\* generate_presigned_url raises
GenerateImageUrl(bucket_name, object_key, url_ok) ==
    IF url_ok
    THEN [kind |-> "presigned", bucket |-> bucket_name, key |-> object_key, ttl |-> ExpiresIn]
    ELSE [kind |-> "public", bucket |-> bucket_name, key |-> Quote(object_key), ttl |-> 0]

\* lambda_function.py:175-193
CreateSqsMessage(image_url, object_key, metadata) ==
    [image_url |-> image_url, object_key |-> object_key, metadata |-> metadata]

\* _send_to_sqs logging the failure without the raise of line 227
SendToSqsRaises_Swallowed(send_ok) == FALSE

\* lambda_function.py:205-227: _send_to_sqs raises when send_message raised
SendToSqsRaises(send_ok) == ~send_ok

\* the try around the loop instead of inside it: a raise ends the batch
AfterRecord_Abort(i, n, raised) == IF raised THEN n + 1 ELSE i + 1

\* lambda_function.py:48, 89-92: the loop goes on to the next record, whether
\* record i raised or not (n is the number of records)
AfterRecord(i, n, raised) == i + 1

Call(op, rec, ok, body) == [op |-> op, rec |-> rec, ok |-> ok, body |-> body]

\* one iteration of the loop of process_s3_event (lambda_function.py:48-92)
ProcessRecord ==
    /\ UNCHANGED botVars
    /\ ipc = "loop"
    /\ idx <= Len(event.Records)
    /\ \E head_ok, url_ok, send_ok \in BOOLEAN :
        LET rec == event.Records[idx]
            n == NormalizeRecord(rec)
            bucket_name == rec.bucket
            object_key == UnquotePlus(rec.key)
            image_url == GenerateImageUrl(bucket_name, object_key, url_ok)
            object_metadata == GetObjectMetadata(head_ok)
            message_body == CreateSqsMessage(image_url, object_key, object_metadata)
            raised == \/ n = "raise"
                      \/ n = "valid" /\ object_metadata = "raise"
                      \/ n = "valid" /\ SendToSqsRaises(send_ok)
        IN
        /\ aws_calls' =
              IF n = "valid" /\ object_metadata = "raise"
              THEN aws_calls \o <<Call("head_object", idx, head_ok, NoMessage)>>
              ELSE IF n = "valid"
              THEN aws_calls \o <<Call("head_object", idx, head_ok, NoMessage),
                                  Call("generate_presigned_url", idx, url_ok, NoMessage),
                                  Call("send_message", idx, send_ok, message_body)>>
              ELSE aws_calls
        /\ processed_images' =
              IF n = "valid" /\ ~raised
              THEN Append(processed_images,
                          [bucket |-> bucket_name, key |-> object_key, url |-> image_url,
                           rec |-> idx])
              ELSE processed_images
        /\ errors' = IF raised THEN Append(errors, [kind |-> "record", rec |-> idx]) ELSE errors
        /\ idx' = AfterRecord(idx, Len(event.Records), raised)
    /\ UNCHANGED <<queue_url, event, ipc, response>>

\* lambda_function.py:101
StatusCode(errs) == IF errs = <<>> THEN 200 ELSE 207

\* lambda_function.py:99-111: the response, after the loop or the outer handler
Respond ==
    /\ UNCHANGED botVars
    /\ \/ ipc = "respond"
       \/ ipc = "loop" /\ idx > Len(event.Records)
    /\ response' =
          IF errors = <<>>
          THEN [statusCode |-> StatusCode(errors),
                processed_count |-> Len(processed_images),
                error_count |-> Len(errors),
                processed_images |-> processed_images]
          ELSE [statusCode |-> StatusCode(errors),
                processed_count |-> Len(processed_images),
                error_count |-> Len(errors),
                processed_images |-> processed_images,
                errors |-> errors]
    /\ ipc' = "done"
    /\ UNCHANGED <<queue_url, event, idx, processed_images, errors, aws_calls>>

Init == BotInit /\ IngestIdle
Next ==
    \/ \E m \in MsgIds, b \in Bodies : Publish(m, b)
    \/ \E m \in MsgIds : VisibilityTimeout(m)
    \/ \E t \in Tasks : Tick(t)
    \/ \E t \in Tasks : Receive(t)
    \/ \E t \in Tasks : ProcessMessage(t)
    \/ \E t \in Tasks : SendReturn(t)
    \/ OnReady
    \/ Shutdown
Spec == Init /\ [][Next]_vars

\* the run of the consumer with reconnects
NextReady ==
    \/ \E m \in MsgIds, b \in Bodies : Publish(m, b)
    \/ \E m \in MsgIds : VisibilityTimeout(m)
    \/ \E t \in Tasks : Tick(t)
    \/ \E t \in Tasks : Receive(t)
    \/ \E t \in Tasks : ProcessMessage(t)
    \/ \E t \in Tasks : SendReturn(t)
    \/ OnReady
    \/ OnReadyAgain
    \/ Shutdown
ReadySpec == Init /\ [][NextReady]_vars

InitIngest == BotInit /\ IngestInit
NextIngest ==
    \/ LambdaStart
    \/ ProcessRecord
    \/ Respond
IngestSpec == InitIngest /\ [][NextIngest]_vars

\* ---- the start-up of both programs

\* a constructor that takes the missing queue URL for configured
ConstructRaises_Never(has_url, has_rest) == FALSE

\* bot.py:33-35, 55-101: the three getters __init__ calls first; each raises
\* ValueError when its value is missing.  has_rest: token and channel id are
\* there.
ConstructRaises(has_url, has_rest) == ~has_rest \/ ~has_url

\* bot.py:315-317 with 31-53: BotManager() constructs the bot.  A getter that
\* raises ends main() before the SQS client and the Discord client are made;
\* otherwise the clients are made and the flags set (lines 50-51).
Construct ==
    /\ UNCHANGED ingestVars
    /\ conn = "unbuilt"
    /\ \E has_rest \in BOOLEAN :
        IF ConstructRaises(queue_url, has_rest)
        THEN /\ conn' = "failed"
             /\ UNCHANGED <<running, processing_active>>
        ELSE /\ conn' = "open"
             /\ running' = TRUE
             /\ processing_active' = FALSE
    /\ ticked' = FALSE
    /\ shut' = FALSE
    /\ ready' = "none"
    /\ UNCHANGED <<task, queue, channel, loop, life>>

\* the events of a start-up: the ones of Events with MaxStartRecords records at most
StartEvents == {ev \in Events : Len(ev.Records) <= MaxStartRecords}

\* Both programs start in an environment that has SQS_QUEUE_URL or has it
\* not: the consumer is not constructed yet (it has no flags and no clients),
\* the Lambda function is invoked with an event.  No producer publishes.
InitFatal ==
    /\ running = FALSE
    /\ processing_active = FALSE
    /\ task = [t \in Tasks |-> IdleTask]
    /\ queue = [m \in MsgIds |-> [st |-> "unpublished", body |-> NoBody]]
    /\ channel = {}
    /\ ticked = FALSE
    /\ loop = "unstarted"
    /\ conn = "unbuilt"
    /\ life = [starts |-> 0, cancels |-> 0, closes |-> 0]
    /\ shut = FALSE
    /\ ready = "none"
    /\ queue_url \in BOOLEAN
    /\ event \in StartEvents
    /\ ipc = "start"
    /\ idx = 0
    /\ processed_images = <<>>
    /\ errors = <<>>
    /\ aws_calls = <<>>
    /\ response = NoResponse
NextFatal ==
    \/ Construct
    \/ OnReady
    \/ \E t \in Tasks : Tick(t)
    \/ \E t \in Tasks : Receive(t)
    \/ Shutdown
    \/ LambdaStart
    \/ ProcessRecord
    \/ Respond
FatalSpec == InitFatal /\ [][NextFatal]_vars

(***************************************************************************)
(*                        PROPERTIES OF THE CONSUMER                       *)
(***************************************************************************)

\* the positions of the entries of task t's log that satisfy P
LogAt(t, op) == {k \in 1..Len(task[t].log) : task[t].log[k].op = op}
\* the fetched message of task t with id m
Fetched(t, m) == {j \in 1..Len(task[t].messages) : task[t].messages[j].MessageId = m}
\* the entries that end a processing attempt of m: one per call of
\* _process_single_message (it raised, returned early, or returned after the send)
AttemptEnds(t, m) ==
    {k \in 1..Len(task[t].log) :
        /\ task[t].log[k].id = m
        /\ \/ task[t].log[k].op \in {"error_json", "error_single", "warning"}
           \/ task[t].log[k].op = "send" /\ task[t].log[k].ok}
DeletesOf(t, m) ==
    {k \in LogAt(t, "delete_message") : task[t].log[k].h = <<"rh", m>>}

\* C1: every published message is still held by the queue or has been sent to
\* the channel at least once (the consumer removes no undelivered message).
C1_NoLoss ==
    \A m \in MsgIds : Published(m) => (InQueue(m) \/ m \in channel)

\* C2: a fetched message whose body has no or an empty image_url gets the
\* warning, no send and no delete call, and is still in the queue.
C2_NoUrlStaysQueued ==
    \A t \in Tasks : \A k \in LogAt(t, "warning") :
        LET m == task[t].log[k].id IN
        /\ \A j \in 1..Len(task[t].log) :
              task[t].log[j].id = m => task[t].log[j].op \notin {"send", "delete_message"}
        /\ DeletesOf(t, m) = {}
        /\ InQueue(m)

\* C3: a message whose send succeeded gets exactly one delete call in that
\* attempt, with its own receipt handle, issued after the send; and a delete
\* issued for a message never carries another message's handle.
C3_OneDeleteAfterSend ==
    \A t \in Tasks :
        /\ \A k \in LogAt(t, "send") :
              LET m == task[t].log[k].id IN
              task[t].log[k].ok =>
                /\ Cardinality(DeletesOf(t, m)) = 1
                /\ \A d \in DeletesOf(t, m) : d = k + 1 /\ task[t].log[d].id = m
                /\ \A j \in Fetched(t, m) :
                      \A d \in DeletesOf(t, m) :
                          task[t].log[d].h = task[t].messages[j].ReceiptHandle
        /\ \A d \in LogAt(t, "delete_message") :
              \A j \in Fetched(t, task[t].log[d].id) :
                  task[t].log[d].h = task[t].messages[j].ReceiptHandle

\* C3 witness: the second message of a batch of two was sent and then deleted
C3_Witness ==
    \E t \in Tasks :
        /\ Len(task[t].messages) = 2
        /\ \E k \in LogAt(t, "send") :
              /\ task[t].log[k].ok
              /\ task[t].log[k].id = task[t].messages[2].MessageId
              /\ k < Len(task[t].log)
              /\ task[t].log[k + 1].op = "delete_message"
              /\ task[t].log[k + 1].ok

\* the attempts of task t that failed: _process_single_message raised
FailedAttempts(t) == LogAt(t, "error_json") \cup LogAt(t, "error_single")

\* C4: a message whose processing attempt failed (invalid JSON, no channel,
\* send raised) gets no delete call in that cycle, stays in the queue and is
\* attempted once only in the cycle.
C4_FailedStaysQueued ==
    \A t \in Tasks : \A k \in FailedAttempts(t) :
        LET m == task[t].log[k].id IN
        /\ DeletesOf(t, m) = {}
        /\ \A d \in LogAt(t, "delete_message") : task[t].log[d].id # m
        /\ InQueue(m)
        /\ Cardinality(AttemptEnds(t, m)) = 1
        /\ Cardinality({j \in LogAt(t, "send") : task[t].log[j].id = m}) <= 1

\* C4 witness: a finished cycle in which one message was invalid JSON and the
\* send of another raised
C4_Witness ==
    \E t \in Tasks :
        /\ task[t].pc = "idle"
        /\ LogAt(t, "error_json") # {}
        /\ \E k \in LogAt(t, "send") : ~task[t].log[k].ok

\* the invocations that are inside a polling cycle
InCycle == {t \in Tasks : task[t].pc # "idle"}

\* C5: no two polling cycles (or fetches) are in progress at once, and a tick
\* that arrives while processing_active is true issues nothing and leaves
\* processing_active alone.
C5_NoOverlap ==
    /\ [](Cardinality(InCycle) <= 1)
    /\ [][(ticked' /\ processing_active) =>
            UNCHANGED <<processing_active, task, queue, channel>>]_vars

\* C5 witness: a tick has just arrived while a cycle awaits channel.send
C5_Witness ==
    /\ ticked
    /\ processing_active
    /\ \E t \in Tasks : task[t].pc = "send"

\* the messages of task t's batch whose attempt was begun: ended, or
\* interrupted at its send
Begun(t) ==
    {m \in MsgIds :
        \/ AttemptEnds(t, m) # {}
        \/ \E k \in LogAt(t, "cancelled") : task[t].log[k].id = m}

\* C14: a cycle that a shutdown finds in flight finishes its batch: once the
\* invocation is over every fetched message had its processing attempt, and
\* every message sent with success had its delete call.
C14_DrainOnShutdown ==
    \A t \in Tasks :
        /\ task[t].pc = "idle" =>
              \A j \in 1..Len(task[t].messages) : task[t].messages[j].MessageId \in Begun(t)
        /\ \A k \in LogAt(t, "send") :
              task[t].log[k].ok => DeletesOf(t, task[t].log[k].id) # {}

\* C15: once running is false it stays false, and a tick that arrives then
\* starts no cycle: it fetches, sends and deletes nothing.
C15_NoCycleAfterStop ==
    /\ [][~running => ~running']_vars
    /\ [][(ticked' /\ ~running) =>
            UNCHANGED <<processing_active, task, queue, channel>>]_vars

\* C15 witness: a tick has just arrived after a shutdown that found the loop
\* running and messages waiting in the queue
C15_Witness ==
    /\ ticked
    /\ ~running
    /\ loop = "cancelled"
    /\ \E m \in MsgIds : queue[m].st = "visible"

\* C16: a call of shutdown after the first one leaves running false, the
\* poll task, the queue, the channel, the loop and the connection as they
\* are; over the whole run the loop is cancelled once at most and the
\* connection closed once at most.
C16_ShutdownIdempotent ==
    /\ [](life.cancels <= 1 /\ life.closes <= 1)
    /\ [][(shut' /\ ~running) =>
            /\ ~running'
            /\ UNCHANGED <<processing_active, task, queue, channel, loop, conn, life>>]_vars

\* C16 witness: shutdown has just been called on a bot that an earlier call
\* had stopped, its loop cancelled and its connection closed
C16_Witness ==
    /\ shut
    /\ ~running
    /\ life.cancels = 1
    /\ life.closes = 1
    /\ \E t \in Tasks : LogAt(t, "cancelled") # {}

\* C17: rendering raises nothing on a timestamp that is absent or not
\* ISO-8601: once the channel was found for such a message, what follows in
\* its attempt is the send (or the cancellation at the send), never the error
\* of a failed attempt.
C17_TimestampFallback ==
    \A t \in Tasks : \A k \in LogAt(t, "get_channel") :
        LET m == task[t].log[k].id IN
        \A j \in Fetched(t, m) :
            ( /\ task[t].log[k].ok
              /\ task[t].messages[j].Body.timestamp \in {"", "malformed"}
              /\ k < Len(task[t].log) )
            => task[t].log[k + 1].op \in {"send", "cancelled"}

\* C19: processing_active is true only while a cycle is in progress, whatever
\* the way the cycle ended; so a tick that arrives while running is true and
\* no cycle is in progress starts a fetch.
C19_BackToIdle ==
    /\ [](processing_active <=> InCycle # {})
    /\ [][(ticked' /\ running /\ ~processing_active) =>
            \E t \in Tasks : task[t].pc = "idle" /\ task'[t].pc = "receive"]_vars

\* C19 witness: the fetch of a cycle raised, the cycle is over and the bot,
\* still running, has a message waiting for the next tick
C19_Witness ==
    /\ running
    /\ ~processing_active
    /\ \E t \in Tasks : task[t].pc = "idle" /\ LogAt(t, "error_cycle") # {}
    /\ \E m \in MsgIds : queue[m].st = "visible"

\* the positions of task t's batch whose iteration of the loop is over
Done(t) ==
    IF task[t].pc = "idle" /\ LogAt(t, "cancelled") = {}
    THEN 1..Len(task[t].messages)
    ELSE 1..(task[t].i - 1)
\* the entries of task t's log about message m
EntriesOf(t, m) == {k \in 1..Len(task[t].log) : task[t].log[k].id = m}

\* C20: the messages of a batch are attempted one after the other in fetch
\* order, each exactly once, whatever failed for the ones before; and a
\* message sent with success whose delete call failed is in the channel and
\* still in the queue.
C20_SequentialAttempts ==
    \A t \in Tasks :
        /\ \A j \in Done(t) :
              Cardinality(AttemptEnds(t, task[t].messages[j].MessageId)) = 1
        /\ \A j1, j2 \in 1..Len(task[t].messages) :
              j1 < j2 =>
                \A k1 \in EntriesOf(t, task[t].messages[j1].MessageId) :
                    \A k2 \in EntriesOf(t, task[t].messages[j2].MessageId) : k1 < k2
        /\ \A k \in LogAt(t, "send") :
              LET m == task[t].log[k].id IN
              ( /\ task[t].log[k].ok
                /\ \E d \in DeletesOf(t, m) : ~task[t].log[d].ok )
              => InQueue(m) /\ m \in channel

\* C20 witness: in a batch of two the first message was sent, its delete call
\* failed, and the second message had its attempt all the same
C20_Witness ==
    \E t \in Tasks :
        /\ Len(task[t].messages) = 2
        /\ \E d \in DeletesOf(t, task[t].messages[1].MessageId) : ~task[t].log[d].ok
        /\ task[t].messages[1].MessageId \in channel
        /\ AttemptEnds(t, task[t].messages[2].MessageId) # {}

(***************************************************************************)
(*                       PROPERTIES OF THE INGEST SIDE                     *)
(***************************************************************************)

\* the records the loop has been through
Handled == {j \in 1..Len(event.Records) : j < idx}
\* the invocation has returned the response of process_s3_event
Returned == ipc = "done" /\ queue_url

SendCalls(j) ==
    {k \in 1..Len(aws_calls) : aws_calls[k].op = "send_message" /\ aws_calls[k].rec = j}
CallsFor(j) == {k \in 1..Len(aws_calls) : aws_calls[k].rec = j}
ErrorsOf(j) == {k \in 1..Len(errors) : errors[k].kind = "record" /\ errors[k].rec = j}
ProcessedOf(j) == {k \in 1..Len(processed_images) : processed_images[k].rec = j}
PublishFailed(j) == \E k \in SendCalls(j) : ~aws_calls[k].ok
Raised(j) == event.Records[j].shape = "malformed" \/ PublishFailed(j)

\* C6: an exception while processing one record (a publish failure included)
\* is recorded as exactly one error, and every record of the batch, before or
\* after it, is still normalized and, if valid, published.
C6_RecordIsolation ==
    (Returned /\ Readable(event)) =>
        \A j \in 1..Len(event.Records) :
            /\ j \in Handled
            /\ NormalizeRecord(event.Records[j]) = "valid" => Cardinality(SendCalls(j)) = 1
            /\ Raised(j) => Cardinality(ErrorsOf(j)) = 1
            /\ ~Raised(j) => ErrorsOf(j) = {}

\* C6 witness: the publish of the first record failed, the second was published
C6_Witness ==
    /\ Returned
    /\ Len(event.Records) = 2
    /\ PublishFailed(1)
    /\ Cardinality(ErrorsOf(1)) = 1
    /\ \E k \in SendCalls(2) : aws_calls[k].ok

\* the extensions the claim allows, without the dot
C7_Allowed ==
    { <<"j", "p", "g">>, <<"j", "p", "e", "g">>, <<"p", "n", "g">>,
      <<"g", "i", "f">>, <<"w", "e", "b", "p">> }
C7_Disallowed(key) ==
    LET ext == Lower(SplitExt(key))
    IN ext = <<>> \/ SubSeq(ext, 2, Len(ext)) \notin C7_Allowed
C7_MustSkip(rec) ==
    /\ rec.shape = "mapping"
    /\ \/ rec.bucket \in {None, ""}
       \/ rec.key = <<>>
       \/ C7_Disallowed(UnquotePlus(rec.key))

\* C7: a record without bucket or key, or whose key has an extension outside
\* {jpg, jpeg, png, gif, webp} (case-insensitive), is skipped: it is in neither
\* list and no collaborator call is made for it.
C7_InvalidSkipped ==
    \A j \in Handled :
        C7_MustSkip(event.Records[j]) =>
            /\ ProcessedOf(j) = {}
            /\ ErrorsOf(j) = {}
            /\ CallsFor(j) = {}

\* C7 witness: a batch of a record with a disallowed extension and a record
\* without bucket has been returned
C7_Witness ==
    /\ Returned
    /\ Len(event.Records) = 2
    /\ event.Records[1].shape = "mapping" /\ event.Records[1].bucket = "imgs"
    /\ event.Records[1].key # <<>> /\ C7_Disallowed(UnquotePlus(event.Records[1].key))
    /\ event.Records[2].shape = "mapping" /\ event.Records[2].bucket = None
    /\ event.Records[2].key # <<>>
    /\ response.statusCode = 200 /\ response.processed_count = 0

\* C8: a record is in processed_images iff it passed validation and its
\* publish returned; a record whose publish failed is in errors and not in
\* processed_images.
C8_ProcessedIffPublished ==
    \A j \in 1..Len(event.Records) :
        /\ ProcessedOf(j) # {} <=>
              (NormalizeRecord(event.Records[j]) = "valid"
               /\ \E k \in SendCalls(j) : aws_calls[k].ok)
        /\ Cardinality(ProcessedOf(j)) <= 1
        /\ (j \in Handled /\ NormalizeRecord(event.Records[j]) = "valid" /\ ~PublishFailed(j))
              => ProcessedOf(j) # {}
        /\ PublishFailed(j) => (ProcessedOf(j) = {} /\ ErrorsOf(j) # {})
        /\ \A k \in ProcessedOf(j) :
              /\ processed_images[k].bucket = event.Records[j].bucket
              /\ processed_images[k].key = UnquotePlus(event.Records[j].key)

\* C8 witness: the first record was published and listed, the publish of the
\* second failed
C8_Witness ==
    /\ Returned
    /\ Len(event.Records) = 2
    /\ ProcessedOf(1) # {}
    /\ PublishFailed(2)
    /\ response.statusCode = 207
    /\ response.processed_count = 1 /\ response.error_count = 1

\* C9: processed_count + error_count is at most the number of records of the
\* batch, and every counted error belongs to a record.
C9_CountsBounded ==
    Returned =>
        /\ response.processed_count + response.error_count <= Len(event.Records)
        /\ \A k \in 1..Len(errors) : errors[k].kind = "record"

\* C10: the status is 200 exactly when the error list is empty and 207 exactly
\* when a record-level error was recorded; record-level failures never give
\* 500; the counts are the lengths of the lists.
C10_Status ==
    Returned =>
        /\ response.statusCode = 200 <=> errors = <<>>
        /\ response.statusCode = 207 <=> (\E k \in 1..Len(errors) : errors[k].kind = "record")
        /\ (\E k \in 1..Len(errors) : errors[k].kind = "record") => response.statusCode # 500
        /\ response.processed_count = Len(processed_images)
        /\ response.error_count = Len(errors)

\* C11: when the batch cannot be read the invocation is answered 500, with
\* the single top-level error, an empty processed list and nothing published.
C11_UnreadableIs500 ==
    (Returned /\ ~Readable(event)) =>
        /\ response.statusCode = 500
        /\ Len(errors) = 1
        /\ processed_images = <<>>
        /\ aws_calls = <<>>

CallsOf(op, j) ==
    {k \in 1..Len(aws_calls) : aws_calls[k].op = op /\ aws_calls[k].rec = j}
LookupFailed(op, j) == \E k \in CallsOf(op, j) : ~aws_calls[k].ok
\* the public URL the fallback builds for record j
C12_PublicUrl(j) ==
    [kind |-> "public", bucket |-> event.Records[j].bucket,
     key |-> Quote(UnquotePlus(event.Records[j].key)), ttl |-> 0]

\* C12: a failed metadata lookup does not abort the record: it is published
\* once with empty metadata and, the publish returning, is listed in
\* processed_images with no error; a failed URL signing publishes the record
\* with the public fallback URL.
C12_LookupFailuresTolerated ==
    \A j \in Handled :
        /\ LookupFailed("head_object", j) =>
              /\ Cardinality(SendCalls(j)) = 1
              /\ \A k \in SendCalls(j) :
                    /\ aws_calls[k].body.metadata = "empty"
                    /\ aws_calls[k].ok => (ProcessedOf(j) # {} /\ ErrorsOf(j) = {})
        /\ LookupFailed("generate_presigned_url", j) =>
              /\ Cardinality(SendCalls(j)) = 1
              /\ \A k \in SendCalls(j) :
                    /\ aws_calls[k].body.image_url = C12_PublicUrl(j)
                    /\ aws_calls[k].ok =>
                          /\ ErrorsOf(j) = {}
                          /\ \E q \in ProcessedOf(j) :
                                processed_images[q].url = C12_PublicUrl(j)

\* C12 witness: both lookups of the only record failed and it was published
C12_Witness ==
    /\ Returned
    /\ Len(event.Records) = 1
    /\ LookupFailed("head_object", 1)
    /\ LookupFailed("generate_presigned_url", 1)
    /\ ProcessedOf(1) # {}
    /\ response.statusCode = 200

\* C13: every message the ingest side publishes has a non-empty image_url
\* and a non-empty object_key, whatever the signing call did.
C13_PublishedNonEmpty ==
    \A k \in 1..Len(aws_calls) :
        aws_calls[k].op = "send_message" =>
            /\ aws_calls[k].body.image_url.kind \in {"presigned", "public"}
            /\ aws_calls[k].body.image_url.key # <<>>
            /\ aws_calls[k].body.image_url.bucket \notin {None, ""}
            /\ aws_calls[k].body.object_key # <<>>

\* C13 witness: one message was published with a signed URL and one with the
\* fallback URL
C13_Witness ==
    /\ \E k \in 1..Len(aws_calls) :
          aws_calls[k].op = "send_message" /\ aws_calls[k].body.image_url.kind = "presigned"
    /\ \E k \in 1..Len(aws_calls) :
          aws_calls[k].op = "send_message" /\ aws_calls[k].body.image_url.kind = "public"

(***************************************************************************)
(*                     PROPERTIES OF THE START-UP                          *)
(***************************************************************************)

\* C18: without queue URL the ingest invocation answers 500 and has
\* normalized and published nothing, and the consumer is never constructed:
\* no client, no fetch, no loop.  With the queue URL no failure of a record or
\* of the batch gives 500, and the consumer stops running through a call of
\* shutdown only.
C18_FatalConfiguration ==
    /\ []( (~queue_url /\ ipc = "done") =>
              /\ response.statusCode = 500
              /\ idx = 0
              /\ aws_calls = <<>>
              /\ processed_images = <<>>
              /\ errors = <<>> )
    /\ []( ~queue_url =>
              /\ conn \in {"unbuilt", "failed"}
              /\ ~running
              /\ loop = "unstarted"
              /\ \A t \in Tasks : task[t] = IdleTask
              /\ life = [starts |-> 0, cancels |-> 0, closes |-> 0] )
    /\ []( (queue_url /\ ipc = "done") => response.statusCode \in {200, 207} )
    /\ [][(running /\ ~running') => shut']_vars
    /\ [][(conn = "open" /\ conn' # "open") => shut']_vars

\* C18 witness: without queue URL the invocation for a batch of one record
\* was answered and the construction of the consumer has failed
C18_Witness ==
    /\ ~queue_url
    /\ ipc = "done"
    /\ Len(event.Records) = 1
    /\ conn = "failed"

(***************************************************************************)
(*                    PROPERTIES OF THE READY EVENTS                       *)
(***************************************************************************)

\* C21: whatever the number of ready events, the loop is started once at
\* most, and it has been started exactly when it is no longer unstarted: a
\* ready event that finds the loop running starts no second one.
C21_StartedOnce ==
    /\ life.starts <= 1
    /\ (loop = "unstarted") <=> (life.starts = 0)
    /\ ready = "again" => (loop = "running" /\ life.starts = 1)
    /\ ready = "start" => (loop = "running" /\ life.starts = 1)

\* C21 witness: a ready event of a reconnect has just found the loop running,
\* while a cycle awaits channel.send
C21_Witness ==
    /\ ready = "again"
    /\ life.starts = 1
    /\ \E t \in Tasks : task[t].pc = "send"

\* C22: a ready event that finds no channel has called shutdown and has not
\* started the loop: running is false, the loop is not running (and was never
\* started if it was not before), no cycle is in progress, and nothing was
\* fetched, sent or deleted if the loop was never started.
C22_NoChannelShutsDown ==
    ready = "nochannel" =>
        /\ shut
        /\ ~running
        /\ loop # "running"
        /\ ~processing_active
        /\ InCycle = {}
        /\ conn = "closed"
        /\ loop = "unstarted" =>
              /\ life.starts = 0
              /\ \A t \in Tasks : task[t] = IdleTask
              /\ channel = {}
              /\ \A m \in MsgIds : queue[m].st \in {"unpublished", "visible"}

\* C22 witness: the first ready event has just found no channel, with a
\* message waiting in the queue
C22_Witness ==
    /\ ready = "nochannel"
    /\ loop = "unstarted"
    /\ \E m \in MsgIds : queue[m].st = "visible"


====
